---- MODULE Spec2Model ----
(***************************************************************************)
(* Model of ipfx/x_to_nwb/hr_segments.py: the stimulus segment classes     *)
(* (Constant, Ramp, Square, Chirp), the factory getSegmentClass and the    *)
(* delta-stepping rule.                                                    *)
(*                                                                         *)
(* Numbers.  Durations, intervals, amplitudes, factors and increments are  *)
(* Python floats in the source.  The model draws them from small integers  *)
(* (a duration of 5 with a sample interval of 2 is 2.5 intervals), on      *)
(* which float +, * and / followed by math.trunc / math.ceil are exact.    *)
(* A float that may be NaN is the record [nan, v] (F(v) or NaN).           *)
(* A sample that is a quotient (np.linspace) is the record [nan, num,      *)
(* den] standing for num/den.  sampleInterval > 0 in every record.         *)
(*                                                                         *)
(* Methods.  A call returns a record [exc, msg, ...]: exc = "none" for a   *)
(* normal return, else the name of the exception raised, msg its message   *)
(* as a tuple of its literal text and the interpolated values.  A method   *)
(* of Segment returns the object as the call leaves it in field self.      *)
(***************************************************************************)
EXTENDS Integers, Sequences, FiniteSets, TLC

VARIABLES stimRec, channelRec, segmentRec, pc, ctor, seg, sweep, out, frame, first,
          others

vars == <<stimRec, channelRec, segmentRec, pc, ctor, seg, sweep, out, frame, first, others>>

(* ------------------------------ bounds -------------------------------- *)

MaxSweep == 2

MaxDuration == 6

MaxCycle == 4

(* ------------------------------ floats -------------------------------- *)

F(v) == [nan |-> FALSE, v |-> v]

NaN == [nan |-> TRUE, v |-> 0]

\* float * float, with NaN propagating
FMul(a, k) == IF a.nan THEN NaN ELSE F(a.v * k)

\* math.trunc(a / b) for b > 0: rounds toward zero
Trunc(a, b) == IF a >= 0 THEN a \div b ELSE -((-a) \div b)

\* math.ceil(a / b) for b > 0
Ceil(a, b) == -((-a) \div b)

\* math.floor(a / b) for b > 0
Floor(a, b) == a \div b

NoMsg == <<>>

(* ------------------------- the input records -------------------------- *)

Modes == {"Inc", "LogInc", "Toggle"}

\* (factor, inc) pairs of the duration axis and of the amplitude axis
XFactorInc == {<<1, 0>>, <<2, 0>>, <<1, 1>>, <<1, -2>>}

YFactorInc == {<<1, 0>>, <<2, 0>>, <<1, 1>>}

Classes == {"Squarewave", "Constant", "Ramp", "Chirpwave", "Sine", "Continuous"}

VoltageSources == {"Constant", "Hold", "File"}

SquareKinds == {"Common Frequency", "Independent"}

ChirpKinds == {"Linear", "Exponential", "Spectroscopy"}

Durations == 0..MaxDuration

SampleIntervals == {1, 2}

StimRecs == [SampleInterval : SampleIntervals]

\* the stepping fields of a segment record
SegmentRecs(cls, xfi, yfi, xmodes, ymodes) ==
    { [Class |-> cls, DurationIncMode |-> xm, DeltaTFactor |-> x[1],
       DeltaTIncrement |-> x[2], VoltageIncMode |-> ym, DeltaVFactor |-> y[1],
       DeltaVIncrement |-> y[2], Duration |-> d, VoltageSource |-> vs, Voltage |-> 3] :
         xm \in xmodes, ym \in ymodes, x \in xfi, y \in yfi, d \in Durations,
         vs \in (IF cls \in {"Constant", "Ramp"} THEN VoltageSources ELSE {"Constant"}) }

ChannelRecs(cls) ==
    { [Square_PosAmpl |-> 2, Square_NegAmpl |-> na, Square_Cycle |-> cy,
       Square_DurFactor |-> df, Square_BaseIncr |-> bi, Square_Kind |-> sk,
       Chirp_Amplitude |-> 2, Chirp_StartFreq |-> f0, Chirp_EndFreq |-> 2,
       Chirp_Kind |-> ck, Holding |-> -1] :
         na \in (IF cls = "Squarewave" THEN {-2, -7} ELSE {-2}),
         cy \in (IF cls = "Squarewave" THEN 0..MaxCycle ELSE {2}),
         df \in (IF cls = "Squarewave" THEN {0, 1} ELSE {0}),
         bi \in (IF cls = "Squarewave" THEN {0, 1} ELSE {0}),
         sk \in (IF cls = "Squarewave" THEN SquareKinds ELSE {"Common Frequency"}),
         f0 \in (IF cls = "Chirpwave" THEN {0, 1} ELSE {1}),
         ck \in (IF cls = "Chirpwave" THEN ChirpKinds ELSE {"Linear"}) }

\* The segment records the parser hands over for a class.  The fields a class
\* never reads are held at one value; a Square segment reads no stepping mode.
SegmentRecsOf(cls) ==
    IF cls = "Squarewave"
      THEN SegmentRecs(cls, {<<1, 0>>, <<1, 1>>}, {<<1, 0>>, <<2, 0>>}, {"Inc"}, {"Inc"})
    ELSE IF cls \in {"Sine", "Continuous"}
      THEN SegmentRecs(cls, {<<1, 0>>}, {<<1, 0>>}, {"Inc"}, {"Inc"})
    ELSE SegmentRecs(cls, XFactorInc, YFactorInc, Modes, Modes)

(* --------------------------- class Segment ---------------------------- *)

AmplitudeScale == 1000

\* Segment.__init__: the fields every segment has
Segment_init(st, ch, sg) ==
    [xDelta |-> [mode |-> sg.DurationIncMode, factor |-> sg.DeltaTFactor,
                 inc |-> sg.DeltaTIncrement],
     yDelta |-> [mode |-> sg.VoltageIncMode, factor |-> sg.DeltaVFactor,
                 inc |-> sg.DeltaVIncrement],
     duration |-> sg.Duration,
     sampleInterval |-> st.SampleInterval,
     amplitudeScale |-> AmplitudeScale]

\* record r extended with the fields of record e
Extend(r, e) ==
    [f \in (DOMAIN r) \cup (DOMAIN e) |-> IF f \in DOMAIN e THEN e[f] ELSE r[f]]

Returned(v) == [exc |-> "none", msg |-> NoMsg, val |-> v]

Segment_hasDelta(deltaDict) == deltaDict.factor # 1 \/ deltaDict.inc # 0

hasXDelta(self) == Segment_hasDelta(self.xDelta)

hasYDelta(self) == Segment_hasDelta(self.yDelta)

\* faulty variant: the factor is applied as well as the increment
Segment_applyDelta_usesFactor(deltaDict, val, sweepNo) ==
    IF ~Segment_hasDelta(deltaDict) THEN Returned(F(val))
    ELSE IF deltaDict.mode = "Inc"
      THEN Returned(F(val * deltaDict.factor + deltaDict.inc * sweepNo))
    ELSE IF deltaDict.mode = "LogInc" THEN Returned(NaN)
    ELSE [exc |-> "ValueError",
          msg |-> <<"Increment mode", deltaDict.mode, "is not supported.">>, val |-> NaN]

Segment_applyDelta(deltaDict, val, sweepNo) ==
    IF ~Segment_hasDelta(deltaDict) THEN Returned(F(val))
    ELSE IF deltaDict.mode = "Inc" THEN Returned(F(val + deltaDict.inc * sweepNo))
    ELSE IF deltaDict.mode = "LogInc" THEN Returned(NaN)
    ELSE [exc |-> "ValueError",
          msg |-> <<"Increment mode", deltaDict.mode, "is not supported.">>, val |-> NaN]

applyAmplitudeScale(self, amplitude) == FMul(amplitude, self.amplitudeScale)

\* the tuple _step returns: x is evaluated first, and y only if x returned
StepPair(x, y) ==
    IF x.exc # "none" THEN [exc |-> x.exc, msg |-> x.msg, x |-> x, y |-> x]
    ELSE IF y.exc # "none" THEN [exc |-> y.exc, msg |-> y.msg, x |-> x, y |-> y]
    ELSE [exc |-> "none", msg |-> NoMsg, x |-> x, y |-> y]

Segment_step(self, xValue, yValue, sweepNo) ==
    StepPair(Segment_applyDelta(self.xDelta, xValue, sweepNo),
             Segment_applyDelta(self.yDelta, yValue, sweepNo))

\* what doStepping returns from the pair s that _step gave it
Stepped(self, s) ==
    IF s.exc # "none"
      THEN [exc |-> s.exc, msg |-> s.msg, duration |-> NaN, amplitude |-> NaN,
            step |-> s, self |-> self]
      ELSE [exc |-> "none", msg |-> NoMsg, duration |-> s.x.val,
            amplitude |-> applyAmplitudeScale(self, s.y.val), step |-> s, self |-> self]

WrittenBack(r) ==
    IF r.exc = "none" /\ ~r.duration.nan
      THEN [r EXCEPT !.self = [r.self EXCEPT !.duration = r.duration.v]]
      ELSE r

\* faulty variant: the stepped duration is written back to the segment
doStepping_writesBack(self, sweepNo) ==
    WrittenBack(Stepped(self, Segment_step(self, self.duration, self.amplitude, sweepNo)))

doStepping(self, sweepNo) ==
    Stepped(self, Segment_step(self, self.duration, self.amplitude, sweepNo))

\* faulty variant: the count is rounded down instead of toward zero
calculateNumberOfPoints_floor(self, duration) ==
    IF duration.nan
      THEN [exc |-> "ValueError", msg |-> <<"cannot convert float NaN to integer">>, n |-> 0]
      ELSE [exc |-> "none", msg |-> NoMsg, n |-> Floor(duration.v, self.sampleInterval)]

\* math.trunc(duration / self.sampleInterval); math.trunc raises on NaN
calculateNumberOfPoints(self, duration) ==
    IF duration.nan
      THEN [exc |-> "ValueError", msg |-> <<"cannot convert float NaN to integer">>, n |-> 0]
      ELSE [exc |-> "none", msg |-> NoMsg, n |-> Trunc(duration.v, self.sampleInterval)]

(* ------------------------- numpy and scipy ---------------------------- *)

R(num, den) == [nan |-> FALSE, num |-> num, den |-> den]

RNaN == [nan |-> TRUE, num |-> 0, den |-> 1]

\* np.full(n, fill): a fresh array
np_full(n, fill) ==
    IF n < 0
      THEN [exc |-> "ValueError", msg |-> <<"negative dimensions are not allowed">>,
            data |-> <<>>]
      ELSE [exc |-> "none", msg |-> NoMsg, data |-> [i \in 1..n |-> fill]]

\* np.linspace(0, stop, num): num points from 0 to stop, the last one set to stop
np_linspace(stop, num) ==
    IF num < 0
      THEN [exc |-> "ValueError",
            msg |-> <<"Number of samples,", num, ", must be non-negative.">>, data |-> <<>>]
      ELSE [exc |-> "none", msg |-> NoMsg,
            data |-> [i \in 1..num |->
                        IF stop.nan THEN RNaN
                        ELSE IF num = 1 THEN R(0, 1)
                        ELSE IF i = num THEN R(stop.v, 1)
                        ELSE R((i - 1) * stop.v, num - 1)]]

\* np.tile(A, reps) for a one-dimensional A.  reps = 1 copies A; any other reps
\* repeats A and returns a reshaped view of the repeated array, which does not
\* own its data; ndarray.repeat rejects a negative count.
np_tile(A, reps) ==
    IF reps = 1
      THEN [exc |-> "none", msg |-> NoMsg, data |-> A, owndata |-> TRUE]
    ELSE IF Len(A) > 0 /\ reps < 0
      THEN [exc |-> "ValueError", msg |-> <<"repeats may not contain negative values.">>,
            data |-> <<>>, owndata |-> FALSE]
    ELSE [exc |-> "none", msg |-> NoMsg,
          data |-> IF Len(A) = 0 THEN <<>>
                   ELSE [i \in 1..(Len(A) * reps) |-> A[((i - 1) % Len(A)) + 1]],
          owndata |-> FALSE]

\* ndarray.resize(n), in place: a change of size needs an array that owns its
\* data; the new tail, when there is one, is filled with zeros
ndarray_resize(arr, n) ==
    IF n < 0
      THEN [exc |-> "ValueError", msg |-> <<"negative dimensions not allowed">>, data |-> <<>>]
    ELSE IF n = Len(arr.data)
      THEN [exc |-> "none", msg |-> NoMsg, data |-> arr.data]
    ELSE IF ~arr.owndata
      THEN [exc |-> "ValueError",
            msg |-> <<"cannot resize this array: it does not own its data">>, data |-> <<>>]
    ELSE [exc |-> "none", msg |-> NoMsg,
          data |-> [i \in 1..n |-> IF i <= Len(arr.data) THEN arr.data[i] ELSE F(0)]]

\* scipy.signal.chirp(x, f0, f1, t1, method, phi=-90): the sample at time t is
\* kept symbolic, as the time it is taken at.  The linear sweep divides by t1
\* (Python floats), the logarithmic sweep rejects f0 * f1 <= 0.
scipy_chirp(x, f0, f1, t1, method) ==
    IF method = "linear" /\ t1 = 0
      THEN [exc |-> "ZeroDivisionError", msg |-> <<"float division by zero">>, data |-> <<>>]
    ELSE IF method = "logarithmic" /\ f0 * f1 <= 0
      THEN [exc |-> "ValueError",
            msg |-> <<"For a logarithmic chirp, f0 and f1 must be nonzero and have the same sign.">>,
            data |-> <<>>]
    ELSE [exc |-> "none", msg |-> NoMsg, data |-> x]

(* --------------------------- constructors ----------------------------- *)

NoSegment == [cls |-> "none"]

Raised(cls, exc, msg) == [exc |-> exc, msg |-> msg, cls |-> cls, obj |-> NoSegment]

Built(cls, obj) ==
    [exc |-> "none", msg |-> NoMsg, cls |-> cls, obj |-> Extend(obj, [cls |-> cls])]

\* the fields SquareSegment.__init__ sets before it validates them
SquareFields(st, ch, sg) ==
    Extend(Segment_init(st, ch, sg),
           [posAmp |-> ch.Square_PosAmpl, negAmp |-> ch.Square_NegAmpl,
            cycleDuration |-> ch.Square_Cycle, durationFactor |-> ch.Square_DurFactor,
            baseIncr |-> ch.Square_BaseIncr, kind |-> ch.Square_Kind])

\* The validation chain of SquareSegment.__init__.  The message of the kind
\* check reads self.squareKind, an attribute no SquareSegment has: building the
\* message raises AttributeError.
SquareValidate(self) ==
    IF self.baseIncr # 0
      THEN Raised("SquareSegment", "ValueError", <<"Unsupported baseIncr=", self.baseIncr>>)
    ELSE IF self.durationFactor # 0
      THEN Raised("SquareSegment", "ValueError",
                  <<"Unsupported durationFactor=", self.durationFactor>>)
    ELSE IF self.kind # "Common Frequency"
      THEN Raised("SquareSegment", "AttributeError",
                  <<"'SquareSegment' object has no attribute 'squareKind'">>)
    ELSE IF hasXDelta(self) \/ hasYDelta(self)
      THEN Raised("SquareSegment", "ValueError", <<"Delta modes are not supported.">>)
    ELSE IF ~(self.cycleDuration > 0)
      THEN Raised("SquareSegment", "ValueError", <<"Invalid cycle duration.">>)
    ELSE Built("SquareSegment", self)

SquareSegment_init(st, ch, sg) == SquareValidate(SquareFields(st, ch, sg))

\* ConstantSegment.__init__ and RampSegment.__init__ resolve the amplitude alike
AmplitudeSegment_init(cls, st, ch, sg) ==
    IF sg.VoltageSource = "Constant"
      THEN Built(cls, Extend(Segment_init(st, ch, sg), [amplitude |-> sg.Voltage]))
    ELSE IF sg.VoltageSource = "Hold"
      THEN Built(cls, Extend(Segment_init(st, ch, sg), [amplitude |-> ch.Holding]))
    ELSE Raised(cls, "ValueError", <<"Unsupported voltage source", sg.VoltageSource>>)

ConstantSegment_init(st, ch, sg) == AmplitudeSegment_init("ConstantSegment", st, ch, sg)

RampSegment_init(st, ch, sg) == AmplitudeSegment_init("RampSegment", st, ch, sg)

ChirpFields(st, ch, sg) ==
    Extend(Segment_init(st, ch, sg),
           [amplitude |-> ch.Chirp_Amplitude, startFreq |-> ch.Chirp_StartFreq,
            endFreq |-> ch.Chirp_EndFreq, kind |-> ch.Chirp_Kind])

ChirpSegment_init(st, ch, sg) ==
    IF ch.Chirp_Kind # "Exponential" /\ ch.Chirp_Kind # "Linear"
      THEN Raised("ChirpSegment", "ValueError",
                  <<"The chirp kind", ch.Chirp_Kind, "is not supported.">>)
      ELSE Built("ChirpSegment", ChirpFields(st, ch, sg))

\* faulty variant: the Constant and Ramp branches are exchanged
getSegmentClass_swapped(st, ch, sg) ==
    IF sg.Class = "Squarewave" THEN SquareSegment_init(st, ch, sg)
    ELSE IF sg.Class = "Constant" THEN RampSegment_init(st, ch, sg)
    ELSE IF sg.Class = "Ramp" THEN ConstantSegment_init(st, ch, sg)
    ELSE IF sg.Class = "Chirpwave" THEN ChirpSegment_init(st, ch, sg)
    ELSE Raised("none", "ValueError", <<"Unsupported stim segment class", sg.Class>>)

getSegmentClass(st, ch, sg) ==
    IF sg.Class = "Squarewave" THEN SquareSegment_init(st, ch, sg)
    ELSE IF sg.Class = "Constant" THEN ConstantSegment_init(st, ch, sg)
    ELSE IF sg.Class = "Ramp" THEN RampSegment_init(st, ch, sg)
    ELSE IF sg.Class = "Chirpwave" THEN ChirpSegment_init(st, ch, sg)
    ELSE Raised("none", "ValueError", <<"Unsupported stim segment class", sg.Class>>)

(* --------------------------- createArray ------------------------------ *)

Result(exc, msg, data, self, locals) ==
    [exc |-> exc, msg |-> msg, data |-> data, self |-> self, frame |-> locals]

\* faulty variant: the second half takes the negative amplitude of the record
OneCycle_usesNegAmp(self, numPointsCycle, halfCycleLength) ==
    [i \in 1..numPointsCycle |->
       IF i <= halfCycleLength THEN applyAmplitudeScale(self, F(self.posAmp))
       ELSE applyAmplitudeScale(self, F(self.negAmp))]

\* oneCycle after its two slice assignments
OneCycle(self, numPointsCycle, halfCycleLength) ==
    [i \in 1..numPointsCycle |->
       IF i <= halfCycleLength THEN applyAmplitudeScale(self, F(self.posAmp))
       ELSE applyAmplitudeScale(self, F(-self.posAmp))]

\* segment.resize(numPoints) on the tiled array, and the return
SquareResized(self, locals, resized) ==
    Result(resized.exc, resized.msg, resized.data, self, locals)

SquareTiled(self, numPoints, numPointsCycle, numCycles, tiled) ==
    IF tiled.exc # "none"
      THEN Result(tiled.exc, tiled.msg, <<>>, self,
                  [fn |-> "SquareSegment.createArray", numPoints |-> numPoints,
                   numPointsCycle |-> numPointsCycle, numCycles |-> numCycles,
                   tiled |-> tiled])
      ELSE SquareResized(self,
                  [fn |-> "SquareSegment.createArray", numPoints |-> numPoints,
                   numPointsCycle |-> numPointsCycle, numCycles |-> numCycles,
                   tiled |-> tiled],
                  ndarray_resize(tiled, numPoints))

SquareCycle(self, numPoints, numPointsCycle, numCycles) ==
    SquareTiled(self, numPoints, numPointsCycle, numCycles,
                np_tile(OneCycle(self, numPointsCycle, numPointsCycle \div 2), numCycles))

\* SquareSegment.createArray: one cycle, tiled, then resized in place
SquareSegment_createArray(self, sweepNo) ==
    SquareCycle(self, calculateNumberOfPoints(self, F(self.duration)).n,
                Trunc(self.cycleDuration, self.sampleInterval),
                Ceil(self.duration, self.cycleDuration))

\* the common head of the three stepped createArray methods: doStepping, then
\* calculateNumberOfPoints on the stepped duration
Counted(fn, st, np) ==
    [exc |-> np.exc, msg |-> np.msg, self |-> st.self,
     duration |-> st.duration, amplitude |-> st.amplitude, numPoints |-> np.n,
     locals |-> [fn |-> fn, stepped |-> st.exc = "none", step |-> st.step,
                 duration |-> st.duration, amplitude |-> st.amplitude,
                 counted |-> (st.exc = "none" /\ np.exc = "none"), numPoints |-> np.n]]

SteppedCount(fn, st) ==
    Counted(fn, st, IF st.exc = "none" THEN calculateNumberOfPoints(st.self, st.duration)
                    ELSE [exc |-> st.exc, msg |-> st.msg, n |-> 0])

SteppedHead(fn, self, sweepNo) == SteppedCount(fn, doStepping(self, sweepNo))

\* the array a that the numpy call gave, returned after head h
ArrayAfter(h, a) ==
    IF h.exc # "none" THEN Result(h.exc, h.msg, <<>>, h.self, h.locals)
    ELSE Result(a.exc, a.msg, a.data, h.self, h.locals)

ConstantFilled(h) == ArrayAfter(h, np_full(h.numPoints, h.amplitude))

ConstantSegment_createArray(self, sweepNo) ==
    ConstantFilled(SteppedHead("ConstantSegment.createArray", self, sweepNo))

RampFilled(h) == ArrayAfter(h, np_linspace(h.amplitude, h.numPoints))

RampSegment_createArray(self, sweepNo) ==
    RampFilled(SteppedHead("RampSegment.createArray", self, sweepNo))

\* amplitude * chirp(x): a sample is the pair of the amplitude and the unit
\* chirp at its time
ChirpScaled(h, x, c) ==
    IF x.exc # "none" THEN Result(x.exc, x.msg, <<>>, h.self, h.locals)
    ELSE IF c.exc # "none" THEN Result(c.exc, c.msg, <<>>, h.self, h.locals)
    ELSE Result("none", NoMsg,
                [i \in 1..Len(c.data) |-> [amp |-> h.amplitude, chirp |-> c.data[i]]],
                h.self, h.locals)

ChirpWave(self, h, x) ==
    ChirpScaled(h, x,
                scipy_chirp(x.data, self.startFreq, self.endFreq, h.duration.v,
                            IF self.kind = "Exponential" THEN "logarithmic" ELSE "linear"))

ChirpTimes(self, h) ==
    IF h.exc # "none" THEN Result(h.exc, h.msg, <<>>, h.self, h.locals)
    ELSE ChirpWave(self, h, np_linspace(h.duration, h.numPoints))

ChirpSegment_createArray(self, sweepNo) ==
    ChirpTimes(self, SteppedHead("ChirpSegment.createArray", self, sweepNo))

(* --------------------------- the state machine ------------------------ *)

NotCalled == [exc |-> "none", msg |-> NoMsg, data |-> <<>>]

Init ==
    /\ stimRec \in StimRecs
    /\ \E cls \in Classes :
          /\ channelRec \in ChannelRecs(cls)
          /\ segmentRec \in SegmentRecsOf(cls)
    /\ pc = "records"
    /\ ctor = [exc |-> "none", msg |-> NoMsg, cls |-> "none", obj |-> NoSegment]
    /\ seg = NoSegment
    /\ sweep = -1
    /\ out = NotCalled
    /\ frame = [fn |-> "none"]
    /\ first = [sweep |-> -1, out |-> NotCalled]
    /\ others = FALSE

\* segment = getSegmentClass(stimRec, channelRec, segmentRec)
Construct ==
    /\ pc = "records"
    /\ ctor' = getSegmentClass(stimRec, channelRec, segmentRec)
    /\ seg' = ctor'.obj
    /\ pc' = IF ctor'.exc = "none" THEN "built" ELSE "failed"
    /\ UNCHANGED <<stimRec, channelRec, segmentRec, sweep, out, frame, first, others>>

\* One call segment.createArray(k), whose result is r.  first keeps the first
\* call and its result; others tells that a call with another sweep index
\* than the first one's was made since.
Called(k, r) ==
    /\ seg' = r.self
    /\ sweep' = k
    /\ out' = [exc |-> r.exc, msg |-> r.msg, data |-> r.data]
    /\ frame' = r.frame
    /\ first' = IF first.sweep = -1
                  THEN [sweep |-> k, out |-> [exc |-> r.exc, msg |-> r.msg, data |-> r.data]]
                  ELSE first
    /\ others' = (others \/ (first.sweep # -1 /\ k # first.sweep))
    /\ UNCHANGED <<stimRec, channelRec, segmentRec, pc, ctor>>

SquareCreateArray ==
    /\ pc = "built" /\ seg.cls = "SquareSegment"
    /\ \E k \in 0..MaxSweep : Called(k, SquareSegment_createArray(seg, k))

ConstantCreateArray ==
    /\ pc = "built" /\ seg.cls = "ConstantSegment"
    /\ \E k \in 0..MaxSweep : Called(k, ConstantSegment_createArray(seg, k))

RampCreateArray ==
    /\ pc = "built" /\ seg.cls = "RampSegment"
    /\ \E k \in 0..MaxSweep : Called(k, RampSegment_createArray(seg, k))

ChirpCreateArray ==
    /\ pc = "built" /\ seg.cls = "ChirpSegment"
    /\ \E k \in 0..MaxSweep : Called(k, ChirpSegment_createArray(seg, k))

Next ==
    \/ Construct
    \/ SquareCreateArray
    \/ ConstantCreateArray
    \/ RampCreateArray
    \/ ChirpCreateArray

Spec == Init /\ [][Next]_vars

(* ------------------------------ claims -------------------------------- *)

SteppedClasses == {"ConstantSegment", "RampSegment", "ChirpSegment"}

SteppedFns ==
    {"ConstantSegment.createArray", "RampSegment.createArray", "ChirpSegment.createArray"}

RecActive(factor, inc) == factor # 1 \/ inc # 0

\* a Square record triple breaks one of the five constraints of the constructor
SquareViolation ==
    \/ channelRec.Square_BaseIncr # 0
    \/ channelRec.Square_DurFactor # 0
    \/ channelRec.Square_Kind # "Common Frequency"
    \/ RecActive(segmentRec.DeltaTFactor, segmentRec.DeltaTIncrement)
    \/ RecActive(segmentRec.DeltaVFactor, segmentRec.DeltaVIncrement)
    \/ ~(channelRec.Square_Cycle > 0)

\* C1: constructing a Square segment from a record triple that breaks at least
\* one of the five constraints (baseIncrement = 0, durationFactor = 0, kind =
\* "Common Frequency", no stepping on either axis, cycleDuration > 0) raises
\* ValueError and yields no segment.
C1_SquareViolationRaisesValueError ==
    (pc # "records" /\ segmentRec.Class = "Squarewave" /\ SquareViolation)
        => (ctor.exc = "ValueError" /\ seg = NoSegment /\ pc = "failed")

\* an axis whose stepping is active under a mode _applyDelta does not know
UnknownModeActive(d) == Segment_hasDelta(d) /\ d.mode \notin {"Inc", "LogInc"}

\* C2: every fatal condition is raised at construction: a segment that was
\* constructed has no active axis with an unrecognized stepping mode, and every
\* createArray(k) on it returns an array.
C2_FatalOnlyAtConstruction ==
    /\ (pc = "built" /\ seg.cls \in SteppedClasses)
          => (~UnknownModeActive(seg.xDelta) /\ ~UnknownModeActive(seg.yDelta))
    /\ (pc = "built" /\ sweep >= 0) => out.exc = "none"

\* C3: getSegmentClass enters the constructor its Class tag names (Squarewave:
\* SquareSegment, Constant: ConstantSegment, Ramp: RampSegment, Chirpwave:
\* ChirpSegment), the segment built holds the values of the three records, and
\* any other tag raises ValueError with the tag in its message and no segment.
C3_Dispatch ==
    pc # "records" =>
      /\ segmentRec.Class = "Squarewave" => ctor.cls = "SquareSegment"
      /\ segmentRec.Class = "Constant" => ctor.cls = "ConstantSegment"
      /\ segmentRec.Class = "Ramp" => ctor.cls = "RampSegment"
      /\ segmentRec.Class = "Chirpwave" => ctor.cls = "ChirpSegment"
      /\ ctor.exc = "none" =>
           /\ pc = "built" /\ seg.cls = ctor.cls
           /\ seg.duration = segmentRec.Duration
           /\ seg.sampleInterval = stimRec.SampleInterval
           /\ seg.xDelta.inc = segmentRec.DeltaTIncrement
           /\ seg.yDelta.factor = segmentRec.DeltaVFactor
           /\ seg.cls = "SquareSegment" => seg.cycleDuration = channelRec.Square_Cycle
           /\ seg.cls = "ChirpSegment" => seg.startFreq = channelRec.Chirp_StartFreq
           /\ seg.cls \in {"ConstantSegment", "RampSegment"} =>
                seg.amplitude = (IF segmentRec.VoltageSource = "Hold"
                                   THEN channelRec.Holding ELSE segmentRec.Voltage)
      /\ segmentRec.Class \notin {"Squarewave", "Constant", "Ramp", "Chirpwave"} =>
           /\ ctor.exc = "ValueError" /\ ctor.cls = "none"
           /\ ctor.msg = <<"Unsupported stim segment class", segmentRec.Class>>
           /\ seg = NoSegment /\ pc = "failed"

\* the tag "Sine" was rejected with the tag in the message
C3_Witness ==
    /\ pc = "failed" /\ segmentRec.Class = "Sine"
    /\ ctor.exc = "ValueError" /\ ctor.msg[2] = "Sine"

\* an axis that is inactive or steps by LogInc
LogIncOrInactive(d) == ~Segment_hasDelta(d) \/ d.mode = "LogInc"

\* C4: on a constructed Constant, Ramp or Chirp segment whose duration or
\* amplitude axis steps by LogInc (the other axis inactive or LogInc as well,
\* and nothing else in the way of the chirp), createArray(k) returns an array.
C4_LogIncDoesNotRaise ==
    ( /\ pc = "built" /\ sweep >= 0 /\ seg.cls \in SteppedClasses
      /\ LogIncOrInactive(seg.xDelta) /\ LogIncOrInactive(seg.yDelta)
      /\ Segment_hasDelta(seg.xDelta) \/ Segment_hasDelta(seg.yDelta)
      /\ seg.cls = "ChirpSegment" => (seg.duration # 0 /\ seg.startFreq * seg.endFreq > 0) )
        => out.exc = "none"

\* a createArray call whose frame counted the points of a duration
CountedFrame == pc = "built" /\ sweep >= 0 /\ frame.fn \in SteppedFns /\ frame.counted

\* C5 as stated: calculateNumberOfPoints(duration) is floor(duration /
\* sampleInterval) for every duration that reaches it, the negative ones of
\* doStepping included.
C5_CountIsFloor ==
    CountedFrame =>
        /\ frame.numPoints * seg.sampleInterval <= frame.duration.v
        /\ frame.duration.v < (frame.numPoints + 1) * seg.sampleInterval

\* n is duration / interval rounded toward zero
TowardZero(n, duration, interval) ==
    IF duration >= 0
      THEN n * interval <= duration /\ duration < (n + 1) * interval
      ELSE (n - 1) * interval < duration /\ duration <= n * interval

\* C5 as amended: calculateNumberOfPoints(duration) is duration /
\* sampleInterval rounded toward zero: the floor for duration >= 0, the ceiling
\* for duration < 0; this holds for the stepped durations and for the
\* unstepped duration of a Square segment.
C5_CountIsTrunc ==
    /\ CountedFrame => TowardZero(frame.numPoints, frame.duration.v, seg.sampleInterval)
    /\ (pc = "built" /\ sweep >= 0 /\ frame.fn = "SquareSegment.createArray")
          => TowardZero(frame.numPoints, seg.duration, seg.sampleInterval)

\* a negative stepped duration that is no multiple of the interval was counted
C5_Witness ==
    /\ CountedFrame
    /\ frame.duration.v < 0
    /\ frame.duration.v % seg.sampleInterval # 0
    /\ frame.numPoints = 0

\* the reference of the stepping rule: r is what apply(d, v, k) gives
DeltaReference(d, v, k, r) ==
    /\ (d.factor = 1 /\ d.inc = 0) => (r.exc = "none" /\ r.val = F(v))
    /\ (~(d.factor = 1 /\ d.inc = 0) /\ d.mode = "Inc")
          => (r.exc = "none" /\ r.val = F(v + d.inc * k))
    /\ (~(d.factor = 1 /\ d.inc = 0) /\ d.mode = "LogInc")
          => (r.exc = "none" /\ r.val.nan)
    /\ (~(d.factor = 1 /\ d.inc = 0) /\ d.mode \notin {"Inc", "LogInc"})
          => (r.exc = "ValueError" /\ \E i \in DOMAIN r.msg : r.msg[i] = d.mode)

\* C6: _applyDelta(spec, v, k) returns v when factor = 1 and inc = 0, whatever
\* the mode; else v + inc * k under Inc (the factor unused), NaN under LogInc,
\* and ValueError naming the mode under any other mode.  Checked on both calls
\* _step makes: the duration under xDelta, then the amplitude under yDelta.
C6_ApplyDeltaReference ==
    (pc = "built" /\ sweep >= 0 /\ frame.fn \in SteppedFns) =>
        /\ DeltaReference(seg.xDelta, seg.duration, sweep, frame.step.x)
        /\ frame.step.x.exc = "none"
              => DeltaReference(seg.yDelta, seg.amplitude, sweep, frame.step.y)

\* a factor of 2 under Inc left the duration alone while the amplitude stepped
C6_Witness ==
    /\ pc = "built" /\ frame.fn \in SteppedFns /\ sweep = 2
    /\ seg.xDelta = [mode |-> "Inc", factor |-> 2, inc |-> 0]
    /\ frame.step.x.val = F(seg.duration)
    /\ seg.yDelta.mode = "Inc" /\ seg.yDelta.inc = 1
    /\ frame.step.y.val = F(seg.amplitude + 2)

\* C7: createArray of a constructed Square segment returns an array of exactly
\* trunc(duration / sampleInterval) samples, whatever the cycle duration.
C7_SquareLengthExact ==
    (pc = "built" /\ sweep >= 0 /\ seg.cls = "SquareSegment") =>
        /\ out.exc = "none"
        /\ Len(out.data) = frame.numPoints

\* C8: createArray leaves the segment as the constructor built it, and a call
\* with the sweep index of the first call returns what the first call
\* returned, whatever calls were made in between.
C8_CreateArrayKeepsSegment ==
    pc = "built" =>
        /\ seg = ctor.obj
        /\ (sweep >= 0 /\ sweep = first.sweep) => out = first.out

\* the first call's sweep index was called again after another one, on a
\* segment whose duration and amplitude both step
C8_Witness ==
    /\ pc = "built" /\ others /\ sweep = first.sweep /\ sweep > 0
    /\ seg.cls = "ConstantSegment"
    /\ seg.xDelta.mode = "Inc" /\ seg.xDelta.inc = 1
    /\ seg.yDelta.mode = "Inc" /\ seg.yDelta.inc = 1
    /\ out.exc = "none" /\ Len(out.data) > 0

\* C9: in SquareSegment.createArray the tiled array has at least numPoints
\* samples: ceil(duration / cycleDuration) * trunc(cycleDuration /
\* sampleInterval) >= trunc(duration / sampleInterval).
C9_TiledAtLeastN ==
    (pc = "built" /\ sweep >= 0 /\ frame.fn = "SquareSegment.createArray"
       /\ frame.tiled.exc = "none")
        => /\ Len(frame.tiled.data) = frame.numCycles * frame.numPointsCycle
           /\ Len(frame.tiled.data) >= frame.numPoints

\* the points of one cycle, from the records
CyclePoints == channelRec.Square_Cycle \div stimRec.SampleInterval

\* C10: sample j (from 0) of the array SquareSegment.createArray returns is
\* 1000 * posAmplitude when (j mod P) < P // 2 and 1000 * (-posAmplitude)
\* otherwise, P = trunc(cycleDuration / sampleInterval); negAmplitude and the
\* sweep index have no part in it.
C10_SquareDutyCycle ==
    (pc = "built" /\ sweep >= 0 /\ seg.cls = "SquareSegment" /\ out.exc = "none") =>
        \A j \in 0..(Len(out.data) - 1) :
            j < Len(frame.tiled.data) =>
                out.data[j + 1] =
                    (IF (j % CyclePoints) < (CyclePoints \div 2)
                       THEN F(1000 * channelRec.Square_PosAmpl)
                       ELSE F(1000 * (-channelRec.Square_PosAmpl)))

\* a cycle of three points, two cycles returned, the negative amplitude of the
\* record not the negated positive one
C10_Witness ==
    /\ pc = "built" /\ seg.cls = "SquareSegment" /\ sweep = 1 /\ out.exc = "none"
    /\ CyclePoints = 3 /\ Len(out.data) = 6
    /\ channelRec.Square_NegAmpl # -channelRec.Square_PosAmpl
    /\ out.data[1] = F(2000) /\ out.data[2] = F(-2000) /\ out.data[3] = F(-2000)
    /\ out.data[4] = F(2000)

====
